---- MODULE Spec2Model ----
(***************************************************************************)
(* Model of src/water.cpp: a GPU wave simulation with two ping-pong        *)
(* textures, a per-frame simulation pass, a render pass and an orbit       *)
(* camera driven by key state.                                             *)
(*                                                                         *)
(* Representation.  Field samples (GL_R32F floats) are fixed-point         *)
(* integers with Scale units per 1.0, products rounded toward minus        *)
(* infinity.  Camera scalars are in thousandths (0.615 -> 615).  The       *)
(* camera position distance*(cos(phi)cos(theta), sin(phi),                 *)
(* cos(phi)sin(theta)) is kept as the triple <<distance, theta, phi>> it   *)
(* is evaluated on: on the modelled range (distance >= 1, 0 < phi < pi/2,  *)
(* theta within less than a full turn) the formula is injective, so two    *)
(* positions are equal exactly when their triples are.                     *)
(***************************************************************************)
EXTENDS Integers, Sequences, FiniteSets, TLC

VARIABLES
    pc,              \* position of main()
    linked,          \* GL_LINK_STATUS of renderProgram / simProgram
    diag,            \* diagnostics printed by createShader / createShaderProgram
    tex,             \* contents of waveTex1 / waveTex2
    boundFBO,        \* GL_FRAMEBUFFER binding
    units,           \* texture bound to GL_TEXTURE0 / GL_TEXTURE1
    program,         \* program in use (glUseProgram)
    clearRed,        \* red component of the clear colour
    isFirstTexture,  \* parity flag
    shouldClose,     \* window close flag
    escPressed,      \* glfwGetKey(ESCAPE) as polled in the frame in progress
    frameCount,      \* static int frameCount
    cameraDistance, cameraTheta, cameraPhi,
    camPos,          \* camX, camY, camZ (as the triple they are computed from)
    viewMatrix,      \* the view matrix uploaded by the render pass
    simDraw,         \* the last glDrawArrays of the simulation pass
    renderDraw       \* the last glDrawElements of the render pass

vars == <<pc, linked, diag, tex, boundFBO, units, program, clearRed,
          isFirstTexture, shouldClose, escPressed, frameCount,
          cameraDistance, cameraTheta, cameraPhi, camPos, viewMatrix,
          simDraw, renderDraw>>

glVars == <<linked, diag, tex, boundFBO, units, program, clearRed>>
cameraVars == <<cameraDistance, cameraTheta, cameraPhi>>

----------------------------------------------------------------------------
(* Bounds of the model *)

GridSize == 4
MaxFrames == 2
MaxKeysHeld == 1
MaxThetaSteps == 1
MaxZoomOut == 1

----------------------------------------------------------------------------
(* Program constants *)

Scale == 1000 * 1000

CNum == 3
CDen == 10
DtNum == 16
DtDen == 1000
DampNum == 999
DampDen == 1000
Amplitude == 2

InitDistance == 8000
InitTheta == 785
InitPhi == 615
AngleStep == 20
MaxPhi == 1500
MinPhi == 100
ZoomStep == 100
MinDistance == 1000
PiMilli == 3141
HalfPiMilli == PiMilli \div 2

NewClearRed == (5 * Scale) \div 100

Keys == {"ESCAPE", "LEFT", "RIGHT", "UP", "DOWN", "W", "S"}
Textures == {"waveTex1", "waveTex2"}
Programs == {"renderProgram", "simProgram"}
Texels == (0 .. GridSize - 1) \X (0 .. GridSize - 1)

\* values an undefined texel may show
UndefVals == {0, Scale}

Min(a, b) == IF a < b THEN a ELSE b
Max(a, b) == IF a > b THEN a ELSE b

----------------------------------------------------------------------------
(* Fixed-point arithmetic *)

RECURSIVE GCD(_, _)
GCD(a, b) == IF b = 0 THEN a ELSE GCD(b, a % b)

\* floor(a * num / den) without leaving 32 bits
MulRatio(a, num, den) ==
    LET g == GCD(num, den)
        n == num \div g
        d == den \div g
    IN  (a \div d) * n + ((a % d) * n) \div d

\* a * b for fixed-point a, b in [0, 2.0]
FMul(a, b) == ((a \div 1000) * b) \div 1000 + ((a % 1000) * b) \div Scale

\* the k-th and later terms of the series of exp(-z), 0 <= z < 1
RECURSIVE ExpSeries(_, _, _)
ExpSeries(z, term, k) ==
    IF term = 0 \/ k > 12 THEN 0
    ELSE LET nxt == FMul(term, z) \div k
         IN  term - ExpSeries(z, nxt, k + 1)

ExpNeg(z) == ExpSeries(z, Scale, 1)

RECURSIVE SumOver(_, _)
SumOver(S, f) ==
    IF S = {} THEN 0
    ELSE LET t == CHOOSE u \in S : TRUE
         IN  f[t] + SumOver(S \ {t}, f)

----------------------------------------------------------------------------
(* Initial conditions, lines 253-270 *)

\* 4 * (dx*dx + dy*dy) with dx = x - gridSize/2.0
QuadDist2(t) == (2 * t[1] - GridSize) * (2 * t[1] - GridSize)
              + (2 * t[2] - GridSize) * (2 * t[2] - GridSize)

\* d < waveRadius, waveRadius = gridSize/4.0
InsideRadius(t) == 4 * QuadDist2(t) < GridSize * GridSize

InitialData ==
    [t \in Texels |->
        IF InsideRadius(t)
        THEN Amplitude * ExpNeg((4 * QuadDist2(t) * Scale) \div (GridSize * GridSize))
        ELSE 0]

ZeroField == [t \in Texels |-> 0]
ConstField(v) == [t \in Texels |-> v]

----------------------------------------------------------------------------
(* Simulation fragment shader, lines 59-73 *)

Clamp(i) == IF i < 0 THEN 0 ELSE IF i > GridSize - 1 THEN GridSize - 1 ELSE i

Fetch(field, x, y) == field[<<Clamp(x), Clamp(y)>>]

SimFragment(cur, prev, t) ==
    LET x == t[1]
        y == t[2]
        current == Fetch(cur, x, y)
        previous == Fetch(prev, x, y)
        left == Fetch(cur, x - 1, y)
        right == Fetch(cur, x + 1, y)
        up == Fetch(cur, x, y + 1)
        down == Fetch(cur, x, y - 1)
        laplacian == left + right + up + down - 4 * current
        next == 2 * current - previous
                + MulRatio(laplacian, CNum * DtNum * DtNum, CDen * DtDen * DtDen)
    IN  MulRatio(next, DampNum, DampDen)

----------------------------------------------------------------------------
(* Shader program creation, lines 83-118 *)

CompileOutcomes ==
    {o \in [vs : BOOLEAN, fs : BOOLEAN, link : BOOLEAN] : o.link => (o.vs /\ o.fs)}

\* createShader prints on failure and returns the shader regardless;
\* createShaderProgram prints on failure and returns the program regardless
ShaderDiagnostics(name, o) ==
    (IF o.vs /\ o.fs THEN {} ELSE {<<name, "Shader compilation failed">>})
    \cup (IF o.link THEN {} ELSE {<<name, "Program linking failed">>})

\* glUseProgram of a program that failed to link is an error and leaves
\* the program in use unchanged
UseProgram(p, cur) == IF linked[p] THEN p ELSE cur

----------------------------------------------------------------------------
(* Texture / framebuffer selection *)

\* lines 249, 251
Attachment(fbo) == IF fbo = "waveFBO1" THEN "waveTex1" ELSE "waveTex2"

\* line 324
WriteFBO_Swapped(first) == IF first THEN "waveFBO1" ELSE "waveFBO2"
WriteFBO(first) == IF first THEN "waveFBO2" ELSE "waveFBO1"

\* line 333
CurrentTexture(first) == IF first THEN "waveTex1" ELSE "waveTex2"

\* line 337
PreviousTexture(first) == IF first THEN "waveTex2" ELSE "waveTex1"

\* line 403
HeightMapTexture_Swapped(first) == IF first THEN "waveTex1" ELSE "waveTex2"
HeightMapTexture(first) == IF first THEN "waveTex2" ELSE "waveTex1"

\* a draw or clear writes the texture attached to the bound framebuffer;
\* framebuffer 0 is the window
WriteBound(fbo, texs, content) ==
    IF fbo = "default" THEN texs
    ELSE [texs EXCEPT ![Attachment(fbo)] = content]

\* Sampling a texture that is attached to the framebuffer being drawn to is
\* a feedback loop: the fetched values are undefined.
SampledField(name, target, fb) ==
    IF name = target /\ ~fb.coherent THEN ConstField(fb.value) ELSE tex[name]

Coherent == [coherent |-> TRUE, value |-> 0]
FeedbackOutcomes == {Coherent} \cup {[coherent |-> FALSE, value |-> g] : g \in UndefVals}

\* lines 320-321: glClear uses the colour set before it, glClearColor follows
ClearValue_ColorFirst(old) == NewClearRed
ClearValue(old) == old

----------------------------------------------------------------------------
(* Orbit camera, lines 306-317 *)

LookUp(phi) == Min(phi + AngleStep, MaxPhi)
LookDown(phi) == Max(phi - AngleStep, MinPhi)
ZoomIn_NoClamp(d) == d - ZoomStep
ZoomIn(d) == Max(d - ZoomStep, MinDistance)
ZoomOut(d) == d + ZoomStep

NewTheta(theta, keys) ==
    LET t1 == IF "LEFT" \in keys THEN theta - AngleStep ELSE theta
    IN  IF "RIGHT" \in keys THEN t1 + AngleStep ELSE t1

NewPhi(phi, keys) ==
    LET p1 == IF "UP" \in keys THEN LookUp(phi) ELSE phi
    IN  IF "DOWN" \in keys THEN LookDown(p1) ELSE p1

NewDistance(d, keys) ==
    LET d1 == IF "W" \in keys THEN ZoomIn(d) ELSE d
    IN  IF "S" \in keys THEN ZoomOut(d1) ELSE d1

\* lines 291-293
CameraPosition(d, theta, phi) == <<d, theta, phi>>

\* lines 365-386: forward and translation from camX/camY/camZ, right from
\* cameraTheta
ViewMatrix(pos, theta) == [pos |-> pos, rightTheta |-> theta]

\* line 287
LoopCondition_Always(close) == TRUE
LoopCondition(close) == ~close

FrameKeys == {k \in SUBSET Keys : Cardinality(k) <= MaxKeysHeld}

NoDraw == [frame |-> 0, target |-> "none", current |-> "none",
           previous |-> "none", program |-> "none", feedback |-> "none",
           prevData |-> ZeroField]
NoRender == [frame |-> 0, fbo |-> "none", heightMap |-> "none", program |-> "none"]

----------------------------------------------------------------------------
(* Start of main() *)

Init ==
    /\ pc = "glfwInit"
    /\ linked = [p \in Programs |-> FALSE]
    /\ diag = {}
    /\ tex = [n \in Textures |-> ZeroField]
    /\ boundFBO = "default"
    /\ units = <<"none", "none">>
    /\ program = "none"
    /\ clearRed = 0
    /\ isFirstTexture = TRUE
    /\ shouldClose = FALSE
    /\ escPressed = FALSE
    /\ frameCount = 0
    /\ cameraDistance = InitDistance
    /\ cameraTheta = InitTheta
    /\ cameraPhi = InitPhi
    /\ camPos = <<0, 0, 0>>
    /\ viewMatrix = [pos |-> <<0, 0, 0>>, rightTheta |-> 0]
    /\ simDraw = NoDraw
    /\ renderDraw = NoRender

\* lines 123-127
GlfwInit ==
    /\ pc = "glfwInit"
    /\ \E ok \in BOOLEAN : pc' = IF ok THEN "createWindow" ELSE "failed"
    /\ UNCHANGED <<glVars, isFirstTexture, shouldClose, escPressed, frameCount,
                   cameraVars, camPos, viewMatrix, simDraw, renderDraw>>

\* lines 134-142
CreateWindow ==
    /\ pc = "createWindow"
    /\ \E ok \in BOOLEAN : pc' = IF ok THEN "glewInit" ELSE "failed"
    /\ UNCHANGED <<glVars, isFirstTexture, shouldClose, escPressed, frameCount,
                   cameraVars, camPos, viewMatrix, simDraw, renderDraw>>

\* lines 144-150
GlewInit ==
    /\ pc = "glewInit"
    /\ \E ok \in BOOLEAN : pc' = IF ok THEN "createRenderProgram" ELSE "failed"
    /\ UNCHANGED <<glVars, isFirstTexture, shouldClose, escPressed, frameCount,
                   cameraVars, camPos, viewMatrix, simDraw, renderDraw>>

\* line 153
CreateRenderProgram ==
    /\ pc = "createRenderProgram"
    /\ \E o \in CompileOutcomes :
          /\ linked' = [linked EXCEPT !["renderProgram"] = o.link]
          /\ diag' = diag \cup ShaderDiagnostics("renderProgram", o)
    /\ pc' = "createSimProgram"
    /\ UNCHANGED <<tex, boundFBO, units, program, clearRed, isFirstTexture,
                   shouldClose, escPressed, frameCount, cameraVars, camPos,
                   viewMatrix, simDraw, renderDraw>>

\* lines 154-155
CreateSimProgram ==
    /\ pc = "createSimProgram"
    /\ \E o \in CompileOutcomes :
          /\ linked' = [linked EXCEPT !["simProgram"] = o.link]
          /\ diag' = diag \cup ShaderDiagnostics("simProgram", o)
    /\ pc' = "setupTextures"
    /\ UNCHANGED <<tex, boundFBO, units, program, clearRed, isFirstTexture,
                   shouldClose, escPressed, frameCount, cameraVars, camPos,
                   viewMatrix, simDraw, renderDraw>>

\* lines 231-245: glTexImage2D with a NULL pointer leaves the contents
\* undefined
SetupTextures ==
    /\ pc = "setupTextures"
    /\ \E g1, g2 \in UndefVals :
          tex' = [tex EXCEPT !["waveTex1"] = ConstField(g1),
                             !["waveTex2"] = ConstField(g2)]
    /\ units' = [units EXCEPT ![1] = "waveTex2"]
    /\ pc' = "setupFBOs"
    /\ UNCHANGED <<linked, diag, boundFBO, program, clearRed, isFirstTexture,
                   shouldClose, escPressed, frameCount, cameraVars, camPos,
                   viewMatrix, simDraw, renderDraw>>

\* lines 247-251: waveFBO2 is the framebuffer left bound
SetupFBOs ==
    /\ pc = "setupFBOs"
    /\ boundFBO' = "waveFBO2"
    /\ pc' = "initialConditions"
    /\ UNCHANGED <<linked, diag, tex, units, program, clearRed, isFirstTexture,
                   shouldClose, escPressed, frameCount, cameraVars, camPos,
                   viewMatrix, simDraw, renderDraw>>

\* lines 253-285
InitialConditions ==
    /\ pc = "initialConditions"
    /\ units' = [units EXCEPT ![1] = "waveTex1"]
    /\ tex' = [tex EXCEPT !["waveTex1"] = InitialData]
    /\ cameraDistance' = InitDistance
    /\ cameraTheta' = InitTheta
    /\ cameraPhi' = InitPhi
    /\ isFirstTexture' = TRUE
    /\ pc' = "loop"
    /\ UNCHANGED <<linked, diag, boundFBO, program, clearRed, shouldClose,
                   escPressed, frameCount, camPos, viewMatrix, simDraw,
                   renderDraw>>

----------------------------------------------------------------------------
(* Frame loop, lines 287-414 *)

\* lines 287-301: loop condition true, camera position, frame counter
BeginFrame ==
    /\ pc = "loop"
    /\ LoopCondition(shouldClose)
    /\ frameCount < MaxFrames
    /\ camPos' = CameraPosition(cameraDistance, cameraTheta, cameraPhi)
    /\ frameCount' = frameCount + 1
    /\ escPressed' = FALSE
    /\ pc' = "input"
    /\ UNCHANGED <<glVars, isFirstTexture, shouldClose, cameraVars, viewMatrix,
                   simDraw, renderDraw>>

\* lines 303-317
Input(keys) ==
    /\ pc = "input"
    /\ escPressed' = ("ESCAPE" \in keys)
    /\ shouldClose' = (shouldClose \/ "ESCAPE" \in keys)
    /\ cameraTheta' = NewTheta(cameraTheta, keys)
    /\ cameraPhi' = NewPhi(cameraPhi, keys)
    /\ cameraDistance' = NewDistance(cameraDistance, keys)
    /\ pc' = "clear"
    /\ UNCHANGED <<glVars, isFirstTexture, frameCount, camPos, viewMatrix,
                   simDraw, renderDraw>>

\* lines 319-321
Clear ==
    /\ pc = "clear"
    /\ tex' = WriteBound(boundFBO, tex, ConstField(ClearValue(clearRed)))
    /\ clearRed' = NewClearRed
    /\ pc' = "sim"
    /\ UNCHANGED <<linked, diag, boundFBO, units, program, isFirstTexture,
                   shouldClose, escPressed, frameCount, cameraVars, camPos,
                   viewMatrix, simDraw, renderDraw>>

\* lines 323-343
SimStep ==
    /\ pc = "sim"
    /\ LET fbo == WriteFBO(isFirstTexture)
           target == Attachment(fbo)
           cur == CurrentTexture(isFirstTexture)
           prev == PreviousTexture(isFirstTexture)
           prog == UseProgram("simProgram", program)
       IN  /\ boundFBO' = fbo
           /\ program' = prog
           /\ units' = <<cur, prev>>
           /\ IF prog = "simProgram"
              THEN \E fb \in (IF target \in {cur, prev}
                              THEN FeedbackOutcomes ELSE {Coherent}) :
                    /\ tex' = WriteBound(fbo, tex,
                                [t \in Texels |->
                                    SimFragment(SampledField(cur, target, fb),
                                                SampledField(prev, target, fb), t)])
                    /\ simDraw' = [frame |-> frameCount, target |-> target,
                                   current |-> cur, previous |-> prev,
                                   program |-> prog,
                                   feedback |-> IF fb.coherent THEN "coherent"
                                                ELSE "undefined",
                                   prevData |-> tex[prev]]
              \* no valid simulation program in use: the quad is drawn with
              \* whatever program is current, or none; the output is not the
              \* simulation's
              ELSE \E g \in UndefVals :
                    /\ tex' = WriteBound(fbo, tex, ConstField(g))
                    /\ simDraw' = [frame |-> frameCount, target |-> target,
                                   current |-> cur, previous |-> prev,
                                   program |-> prog, feedback |-> "none",
                                   prevData |-> tex[prev]]
    /\ pc' = "render"
    /\ UNCHANGED <<linked, diag, clearRed, isFirstTexture, shouldClose,
                   escPressed, frameCount, cameraVars, camPos, viewMatrix,
                   renderDraw>>

\* lines 345-408
Render ==
    /\ pc = "render"
    /\ LET fbo == "default"
           prog == UseProgram("renderProgram", program)
           hm == HeightMapTexture(isFirstTexture)
       IN  /\ boundFBO' = fbo
           /\ program' = prog
           /\ viewMatrix' = ViewMatrix(camPos, cameraTheta)
           /\ units' = [units EXCEPT ![1] = hm]
           /\ \E g \in UndefVals : tex' = WriteBound(fbo, tex, ConstField(g))
           /\ renderDraw' = [frame |-> frameCount, fbo |-> fbo,
                             heightMap |-> hm, program |-> prog]
    /\ pc' = "present"
    /\ UNCHANGED <<linked, diag, clearRed, isFirstTexture, shouldClose,
                   escPressed, frameCount, cameraVars, camPos, simDraw>>

\* lines 410-413: glfwPollEvents may deliver a window-close request
Present ==
    /\ pc = "present"
    /\ \E close \in BOOLEAN : shouldClose' = (shouldClose \/ close)
    /\ isFirstTexture' = ~isFirstTexture
    /\ pc' = "loop"
    /\ UNCHANGED <<glVars, escPressed, frameCount, cameraVars, camPos,
                   viewMatrix, simDraw, renderDraw>>

\* lines 287, 416-430: loop condition false, cleanup, return 0
Terminate ==
    /\ pc = "loop"
    /\ ~LoopCondition(shouldClose)
    /\ pc' = "stopped"
    /\ UNCHANGED <<glVars, isFirstTexture, shouldClose, escPressed, frameCount,
                   cameraVars, camPos, viewMatrix, simDraw, renderDraw>>

Next ==
    \/ GlfwInit
    \/ CreateWindow
    \/ GlewInit
    \/ CreateRenderProgram
    \/ CreateSimProgram
    \/ SetupTextures
    \/ SetupFBOs
    \/ InitialConditions
    \/ BeginFrame
    \/ \E keys \in FrameKeys : Input(keys)
    \/ Clear
    \/ SimStep
    \/ Render
    \/ Present
    \/ Terminate

Spec == Init /\ [][Next]_vars

----------------------------------------------------------------------------
(* The orbit camera on its own: the per-frame key handling of lines         *)
(* 303-317 applied frame after frame from the state in which the loop is    *)
(* entered.  The rest of a frame neither reads nor writes cameraDistance,   *)
(* cameraTheta, cameraPhi or the close flag, and is left out here so that   *)
(* runs long enough to reach the clamps stay small.                         *)

LoopEntry ==
    /\ pc = "loop"
    /\ frameCount = 0
    /\ linked = [p \in Programs |-> TRUE]
    /\ diag = {}
    /\ \E g \in UndefVals :
          tex = [n \in Textures |->
                    IF n = "waveTex1" THEN InitialData ELSE ConstField(g)]
    /\ boundFBO = "waveFBO2"
    /\ units = <<"waveTex1", "none">>
    /\ program = "none"
    /\ clearRed = 0
    /\ isFirstTexture = TRUE
    /\ shouldClose = FALSE
    /\ escPressed = FALSE
    /\ cameraDistance = InitDistance
    /\ cameraTheta = InitTheta
    /\ cameraPhi = InitPhi
    /\ camPos = <<0, 0, 0>>
    /\ viewMatrix = [pos |-> <<0, 0, 0>>, rightTheta |-> 0]
    /\ simDraw = NoDraw
    /\ renderDraw = NoRender

\* the undefined contents of waveTex2 play no part in the camera
InitCamera == LoopEntry /\ tex["waveTex2"] = ZeroField

\* the part of the camera range the model explores
InCameraRange(theta, d) ==
    /\ theta >= InitTheta - MaxThetaSteps * AngleStep
    /\ theta <= InitTheta + MaxThetaSteps * AngleStep
    /\ d <= InitDistance + MaxZoomOut * ZoomStep

\* lines 287, 303-317
CameraInput(keys) ==
    /\ pc = "loop"
    /\ LoopCondition(shouldClose)
    /\ InCameraRange(NewTheta(cameraTheta, keys), NewDistance(cameraDistance, keys))
    /\ escPressed' = ("ESCAPE" \in keys)
    /\ shouldClose' = (shouldClose \/ "ESCAPE" \in keys)
    /\ cameraTheta' = NewTheta(cameraTheta, keys)
    /\ cameraPhi' = NewPhi(cameraPhi, keys)
    /\ cameraDistance' = NewDistance(cameraDistance, keys)
    /\ UNCHANGED <<pc, glVars, isFirstTexture, frameCount, camPos, viewMatrix,
                   simDraw, renderDraw>>

NextCamera == \E keys \in SUBSET Keys : CameraInput(keys)

SpecCamera == InitCamera /\ [][NextCamera]_vars

----------------------------------------------------------------------------
(* Properties *)

FramePCs == {"input", "clear", "sim", "render", "present"}

\* C1: after the parity flip that ends a frame, the texture selected as
\* current for the next simulation step is the texture the simulation step
\* of the frame just finished wrote into, and is not the texture that was
\* current in that step.
C1_ParityCorrect ==
    (pc = "loop" /\ frameCount > 0) =>
        /\ simDraw.frame = frameCount
        /\ CurrentTexture(isFirstTexture) = simDraw.target
        /\ CurrentTexture(isFirstTexture) # simDraw.current

\* two frames done: both values of the parity flag have been flipped
C1_Witness ==
    /\ pc = "loop"
    /\ frameCount = 2
    /\ isFirstTexture
    /\ simDraw.target = "waveTex1"
    /\ simDraw.program = "simProgram"

\* C2: in every simulation step the texture attached to the framebuffer
\* drawn to differs from both textures bound as currentState and
\* previousState.
C2_ReadWriteSeparation ==
    simDraw.frame > 0 => simDraw.target \notin {simDraw.current, simDraw.previous}

\* C3: whatever keys are held frame after frame, elevation stays within
\* [0.1, 1.5], hence strictly below pi/2, and distance never drops below 1.0.
C3_CameraClamp ==
    /\ cameraPhi >= MinPhi
    /\ cameraPhi <= MaxPhi
    /\ cameraPhi < HalfPiMilli
    /\ cameraDistance >= MinDistance

\* elevation 1.5 is off the 0.615 + k*0.02 lattice, so it is only reached by
\* UP with the clamp engaged; distance 1.0 is reached by holding W
C3_Witness ==
    /\ cameraPhi = MaxPhi
    /\ cameraDistance = MinDistance

C5_AbortOnShaderFailure ==
    (\E p \in Programs : ~linked[p]) => (pc \notin FramePCs /\ frameCount = 0)

\* C6: when the first simulation step begins, the current texture is
\* waveTex1 and holds the initial samples (positive inside the radius, zero
\* outside), and every texel of waveTex2 is zero.
C6_InitialFields ==
    (pc = "sim" /\ frameCount = 1) =>
        /\ CurrentTexture(isFirstTexture) = "waveTex1"
        /\ PreviousTexture(isFirstTexture) = "waveTex2"
        /\ \A t \in Texels :
              /\ tex["waveTex1"][t] = InitialData[t]
              /\ InsideRadius(t) => tex["waveTex1"][t] > 0
              /\ ~InsideRadius(t) => tex["waveTex1"][t] = 0
              /\ tex["waveTex2"][t] = 0

C6_Witness ==
    /\ pc = "sim"
    /\ frameCount = 1
    /\ \E t \in Texels : tex["waveTex1"][t] > Scale
    /\ tex["waveTex2"] = ZeroField

\* the update rule as the claim states it, with c^2 * dt^2
ClaimedNext(cur, prev, t) ==
    LET x == t[1]
        y == t[2]
        current == Fetch(cur, x, y)
        previous == Fetch(prev, x, y)
        laplacian == Fetch(cur, x - 1, y) + Fetch(cur, x + 1, y)
                     + Fetch(cur, x, y + 1) + Fetch(cur, x, y - 1) - 4 * current
        next == 2 * current - previous
                + MulRatio(laplacian, CNum * CNum * DtNum * DtNum,
                                      CDen * CDen * DtDen * DtDen)
    IN  MulRatio(next, DampNum, DampDen)

\* C7: every texel written by a simulation step equals
\* damping * (2*current - previous + c^2 * dt^2 * laplacian).  Stated for
\* steps run by the simulation program whose reads returned the stored
\* values.
C7_UpdateRule ==
    (pc = "render" /\ simDraw.program = "simProgram" /\ simDraw.feedback = "coherent") =>
        \A t \in Texels :
            tex[simDraw.target][t]
                = ClaimedNext(tex[simDraw.current], simDraw.prevData, t)

\* sum of squared samples, in squared thousandths
Energy(field) ==
    SumOver(Texels, [t \in Texels |-> (field[t] \div 1000) * (field[t] \div 1000)])

\* C8: the energy of the field a simulation step produces is at most the
\* energy of the field that was current before the step.  Stated for steps
\* run by the simulation program whose reads returned the stored values.
C8_EnergyDecay ==
    (pc = "render" /\ simDraw.program = "simProgram" /\ simDraw.feedback = "coherent") =>
        Energy(tex[simDraw.target]) <= Energy(tex[simDraw.current])

\* C9: the texture bound as heightMap for a frame's render pass is the one
\* the simulation step of that frame wrote, not the step's current input,
\* and the render pass draws to framebuffer 0 only.
C9_RenderNewest ==
    pc = "present" =>
        /\ renderDraw.frame = frameCount
        /\ simDraw.frame = frameCount
        /\ units[1] = renderDraw.heightMap
        /\ renderDraw.heightMap = simDraw.target
        /\ renderDraw.heightMap # simDraw.current
        /\ renderDraw.fbo = "default"
        /\ boundFBO = "default"

C9_Witness ==
    /\ pc = "present"
    /\ frameCount = 2
    /\ renderDraw.heightMap = "waveTex1"
    /\ renderDraw.program = "renderProgram"
    /\ simDraw.target = "waveTex1"
    /\ simDraw.program = "simProgram"

\* C10: the camera position in a frame's view matrix is the position
\* formula evaluated on the camera state after that frame's key input, so
\* that position and right vector come from the same camera state.
C10_CameraFresh ==
    pc = "present" =>
        /\ viewMatrix.pos = CameraPosition(cameraDistance, cameraTheta, cameraPhi)
        /\ viewMatrix.pos[2] = viewMatrix.rightTheta

====
